---- MODULE Spec2Model ----
(***************************************************************************)
(* Music Video Organizer (music.video.scrape.py).                          *)
(*                                                                         *)
(* Strings are sequences of one-character strings, so that parsing,        *)
(* sanitising and lower-casing are computed character by character the way *)
(* the Python code computes them.  Python's None is the model value None.  *)
(***************************************************************************)
EXTENDS FiniteSets, Integers, Naturals, Sequences, TLC

\* Optional values: Python's None is the empty tuple, a present value v is <<v>>
None == <<>>
Some(v) == <<v>>
IsNone(o) == o = <<>>
Val(o) == o[1]

\* ------------------------------------------------------------------------
\* Bounds of the model
\* ------------------------------------------------------------------------
MaxFiles == 2
MaxResults == 2
MaxVideos == 2
MaxNameLen == 3
MaxStemLen == 4

\* ------------------------------------------------------------------------
\* String primitives (Python str methods used by the program)
\* ------------------------------------------------------------------------
UpperChars == <<"A","B","C","D","E","F","G","H","I","J","K","L","M",
                "N","O","P","Q","R","S","T","U","V","W","X","Y","Z">>
LowerChars == <<"a","b","c","d","e","f","g","h","i","j","k","l","m",
                "n","o","p","q","r","s","t","u","v","w","x","y","z">>

LowerChar(c) ==
    IF \E i \in 1..Len(UpperChars) : UpperChars[i] = c
    THEN LowerChars[CHOOSE i \in 1..Len(UpperChars) : UpperChars[i] = c]
    ELSE c

\* str.lower()
Lower(s) == [i \in 1..Len(s) |-> LowerChar(s[i])]

\* characters str.strip() and the regex class \s remove
IsSpace(c) == c \in {" ", "\t", "\n", "\r"}

RECURSIVE LStrip(_)
LStrip(s) == IF s # <<>> /\ IsSpace(Head(s)) THEN LStrip(Tail(s)) ELSE s

RECURSIVE RStrip(_)
RStrip(s) ==
    IF s # <<>> /\ IsSpace(s[Len(s)]) THEN RStrip(SubSeq(s, 1, Len(s) - 1)) ELSE s

\* str.strip()
Strip(s) == RStrip(LStrip(s))

\* str.rstrip('.')
RECURSIVE RStripDots(_)
RStripDots(s) ==
    IF s # <<>> /\ s[Len(s)] = "." THEN RStripDots(SubSeq(s, 1, Len(s) - 1)) ELSE s

\* str.replace(c, d) for a single character c
ReplaceChar(s, c, d) == [i \in 1..Len(s) |-> IF s[i] = c THEN d ELSE s[i]]

\* t occurs in s at position i
OccursAt(t, s, i) ==
    /\ i >= 1
    /\ i + Len(t) - 1 <= Len(s)
    /\ SubSeq(s, i, i + Len(t) - 1) = t

\* Python's `t in s`
Contains(s, t) == \E i \in 1..(Len(s) + 1) : OccursAt(t, s, i)

\* str.find(t) + 1; 0 when t does not occur
Find(s, t) ==
    IF Contains(s, t)
    THEN CHOOSE i \in 1..(Len(s) + 1) :
            /\ OccursAt(t, s, i)
            /\ \A j \in 1..(i - 1) : ~OccursAt(t, s, j)
    ELSE 0

\* str.rfind('.') + 1
RFindDot(s) ==
    IF \E i \in 1..Len(s) : s[i] = "."
    THEN CHOOSE i \in 1..Len(s) :
            s[i] = "." /\ \A j \in (i + 1)..Len(s) : s[j] # "."
    ELSE 0

\* pathlib: PurePath.suffix of a file name
Suffix(name) ==
    LET i == RFindDot(name)
    IN IF 1 < i /\ i < Len(name) THEN SubSeq(name, i, Len(name)) ELSE <<>>

\* pathlib: PurePath.stem of a file name
Stem(name) ==
    LET i == RFindDot(name)
    IN IF 1 < i /\ i < Len(name) THEN SubSeq(name, 1, i - 1) ELSE name

\* ------------------------------------------------------------------------
\* sanitize_filename, get_primary_artist
\* ------------------------------------------------------------------------
InvalidChars == <<"<", ">", ":", "\"", "/", "\\", "|", "?", "*">>

IsInvalidChar(c) == \E i \in 1..Len(InvalidChars) : InvalidChars[i] = c

sanitize_filename(name) ==
    LET replaced == [i \in 1..Len(name) |->
                        IF IsInvalidChar(name[i]) THEN "_" ELSE name[i]]
    IN RStripDots(Strip(replaced))

\* length of the run of whitespace starting at position i of s
RECURSIVE SpaceRun(_, _)
SpaceRun(s, i) ==
    IF i <= Len(s) /\ IsSpace(s[i]) THEN 1 + SpaceRun(s, i + 1) ELSE 0

\* the regex \s+feat\.?\s+ matches s starting at position i
FeatAt(s, i) ==
    LET n == SpaceRun(s, i)
        j == i + n
    IN /\ n >= 1
       /\ OccursAt(<<"f","e","a","t">>, Lower(s), j)
       /\ LET k == IF j + 4 <= Len(s) /\ s[j + 4] = "." THEN j + 5 ELSE j + 4
          IN SpaceRun(s, k) >= 1

get_primary_artist(artist_name) ==
    IF \E i \in 1..Len(artist_name) : FeatAt(artist_name, i)
    THEN LET i == CHOOSE i \in 1..Len(artist_name) :
                    /\ FeatAt(artist_name, i)
                    /\ \A j \in 1..(i - 1) : ~FeatAt(artist_name, j)
         IN Strip(SubSeq(artist_name, 1, i - 1))
    ELSE Strip(artist_name)

\* ------------------------------------------------------------------------
\* Regular-expression helpers used by parse_filename
\* ------------------------------------------------------------------------
IsOpen(c) == c \in {"(", "[", "{"}
IsClose(c) == c \in {")", "]", "}"}

\* index of the first position >= i of s whose character satisfies the
\* class (0 when there is none)
FirstOpenFrom(s, i) ==
    IF \E j \in i..Len(s) : IsOpen(s[j])
    THEN CHOOSE j \in i..Len(s) : IsOpen(s[j]) /\ \A k \in i..(j - 1) : ~IsOpen(s[k])
    ELSE 0

FirstCloseFrom(s, i) ==
    IF \E j \in i..Len(s) : IsClose(s[j])
    THEN CHOOSE j \in i..Len(s) : IsClose(s[j]) /\ \A k \in i..(j - 1) : ~IsClose(s[k])
    ELSE 0

\* length of the run of whitespace ending at position i of s
RECURSIVE SpaceRunBack(_, _)
SpaceRunBack(s, i) ==
    IF i >= 1 /\ IsSpace(s[i]) THEN 1 + SpaceRunBack(s, i - 1) ELSE 0

\* re.sub(r'\s*[\(\[\{].*?[\)\]\}]\s*', '', s)
RECURSIVE RemoveBracketed(_)
RemoveBracketed(s) ==
    LET j == FirstOpenFrom(s, 1)
        k == IF j = 0 THEN 0 ELSE FirstCloseFrom(s, j + 1)
    IN IF j = 0 \/ k = 0 THEN s
       ELSE LET start == j - SpaceRunBack(s, j - 1)
                stop == k + SpaceRun(s, k + 1)
            IN SubSeq(s, 1, start - 1) \o RemoveBracketed(SubSeq(s, stop + 1, Len(s)))

\* re.findall(r'[\(\[\{].*?[\)\]\}]', s)
RECURSIVE FindBracketed(_)
FindBracketed(s) ==
    LET j == FirstOpenFrom(s, 1)
        k == IF j = 0 THEN 0 ELSE FirstCloseFrom(s, j + 1)
    IN IF j = 0 \/ k = 0 THEN <<>>
       ELSE <<SubSeq(s, j, k)>> \o FindBracketed(SubSeq(s, k + 1, Len(s)))

\* ' '.join(parts)
RECURSIVE JoinSpace(_)
JoinSpace(parts) ==
    IF parts = <<>> THEN <<>>
    ELSE IF Len(parts) = 1 THEN parts[1]
    ELSE parts[1] \o <<" ">> \o JoinSpace(Tail(parts))

\* the record built from an (artist, song segment) split
ParsedRecord(artist, song_part) ==
    LET song_clean == Strip(RemoveBracketed(song_part))
        parens == FindBracketed(song_part)
        extra_info == IF parens # <<>> THEN Some(JoinSpace(parens)) ELSE None
    IN [artist |-> artist, song |-> song_clean,
        song_original |-> song_part, extra_info |-> extra_info]

SepDash == <<" ", "-", " ">>
SepBy == <<" ", "b", "y", " ">>

\* name.split(' - ', 1) followed by the strip() of both parts
SplitOnSep(name) ==
    LET i == Find(name, SepDash)
    IN ParsedRecord(Strip(SubSeq(name, 1, i - 1)),
                    Strip(SubSeq(name, i + 3, Len(name))))

\* re.sub(r'[-\.]word.*$', '', s, flags=re.IGNORECASE)
JunkAt(s, word, i) == s[i] \in {"-", "."} /\ OccursAt(word, Lower(s), i + 1)

CutFromJunk(s, word) ==
    IF \E i \in 1..Len(s) : JunkAt(s, word, i)
    THEN LET i == CHOOSE i \in 1..Len(s) :
                    JunkAt(s, word, i) /\ \A j \in 1..(i - 1) : ~JunkAt(s, word, j)
         IN SubSeq(s, 1, i - 1)
    ELSE s

\* re.sub(r'[-\.]word$', '', s, flags=re.IGNORECASE)
CutJunkAtEnd(s, word) ==
    LET i == Len(s) - Len(word)
    IN IF i >= 1 /\ JunkAt(s, word, i) THEN SubSeq(s, 1, i - 1) ELSE s

\* re.sub(r'\[.*?\]', '', s)
RECURSIVE RemoveSquare(_)
RemoveSquare(s) ==
    IF \E j \in 1..Len(s) : s[j] = "[" /\ \E k \in (j + 1)..Len(s) : s[k] = "]"
    THEN LET j == CHOOSE j \in 1..Len(s) :
                    /\ s[j] = "[" /\ \E k \in (j + 1)..Len(s) : s[k] = "]"
                    /\ \A i \in 1..(j - 1) :
                          ~(s[i] = "[" /\ \E k \in (i + 1)..Len(s) : s[k] = "]")
             k == CHOOSE k \in (j + 1)..Len(s) :
                    s[k] = "]" /\ \A i \in (j + 1)..(k - 1) : s[i] # "]"
         IN SubSeq(s, 1, j - 1) \o RemoveSquare(SubSeq(s, k + 1, Len(s)))
    ELSE s

\* re.sub(literal, '', s, flags=re.IGNORECASE) for a literal in lower case
RECURSIVE RemoveLiteral(_, _)
RemoveLiteral(s, lit) ==
    LET i == Find(Lower(s), lit)
    IN IF i = 0 THEN s
       ELSE SubSeq(s, 1, i - 1) \o RemoveLiteral(SubSeq(s, i + Len(lit), Len(s)), lit)

\* removal of every occurrence of one character
RemoveChar(s, c) == SelectSeq(s, LAMBDA x : x # c)

\* the scene_junk list, applied in order
JunkToEnd == << <<"s","v","c","d">>, <<"d","v","d","r","i","p">>,
                <<"l","b","v","i","d","z">>, <<"g","n","r","u","l","e","s">>,
                <<"l","i","t","t","l","e","c">> >>
JunkToEnd2 == << <<"f","i","o","r","e","t","t","i">>, <<"d","e","t","o","x">>,
                 <<"t","o","l","e","r","a","n","c","e">>, <<"g","r","a","y">>,
                 <<"f","u","s","e","d">>, <<"e","v","i","l","s","o","u","l">>,
                 <<"s","z","b">>, <<"x","2","6","4">>, <<"a","c","3">> >>

RECURSIVE CutAll(_, _)
CutAll(s, words) ==
    IF words = <<>> THEN s ELSE CutAll(CutFromJunk(s, Head(words)), Tail(words))

StripSceneJunk(name) ==
    LET a == CutAll(name, JunkToEnd)
        b == CutJunkAtEnd(CutJunkAtEnd(a, <<"m","v">>), <<"m","b">>)
        c == CutAll(b, JunkToEnd2)
        d == RemoveSquare(c)
        e == RemoveLiteral(d, <<"(","o","f","f","i","c","i","a","l"," ","v","i","d","e","o",")">>)
        f == RemoveLiteral(e, <<"(","o","f","f","i","c","i","a","l",")">>)
    IN RemoveChar(RemoveChar(f, "\""), "FULLWIDTH_QUOTE")

\* name.replace('..', ' . ')
RECURSIVE ReplaceDoubleDot(_)
ReplaceDoubleDot(s) ==
    IF Len(s) < 2 THEN s
    ELSE IF s[1] = "." /\ s[2] = "."
         THEN <<" ", ".", " ">> \o ReplaceDoubleDot(SubSeq(s, 3, Len(s)))
         ELSE <<s[1]>> \o ReplaceDoubleDot(Tail(s))

\* re.sub(r'\s+', ' ', s)
RECURSIVE CollapseSpaces(_)
CollapseSpaces(s) ==
    IF s = <<>> THEN <<>>
    ELSE IF IsSpace(s[1])
         THEN <<" ">> \o CollapseSpaces(SubSeq(s, 1 + SpaceRun(s, 1), Len(s)))
         ELSE <<s[1]>> \o CollapseSpaces(Tail(s))

\* the regex \s+Featuring\.?\s+ matches s starting at position i
FeaturingWord == <<"f","e","a","t","u","r","i","n","g">>

FeaturingAt(s, i) ==
    LET n == SpaceRun(s, i)
        j == i + n
    IN /\ n >= 1
       /\ OccursAt(FeaturingWord, Lower(s), j)
       /\ LET k == IF j + 9 <= Len(s) /\ s[j + 9] = "." THEN j + 10 ELSE j + 9
          IN SpaceRun(s, k) >= 1

\* re.sub(r'\s+Featuring\.?\s+.*$', '', s, flags=re.IGNORECASE)
CutFeaturing(s) ==
    IF \E i \in 1..Len(s) : FeaturingAt(s, i)
    THEN LET i == CHOOSE i \in 1..Len(s) :
                    FeaturingAt(s, i) /\ \A j \in 1..(i - 1) : ~FeaturingAt(s, j)
         IN SubSeq(s, 1, i - 1)
    ELSE s

\* index of the first "-" of s at or after i (Len(s) + 1 when there is none)
FirstDashFrom(s, i) ==
    IF \E j \in i..Len(s) : s[j] = "-"
    THEN CHOOSE j \in i..Len(s) : s[j] = "-" /\ \A k \in i..(j - 1) : s[k] # "-"
    ELSE Len(s) + 1

\* ------------------------------------------------------------------------
\* parse_filename
\* ------------------------------------------------------------------------
parse_oddities(stem) ==
    LET n1 == StripSceneJunk(stem)
        n2 == ReplaceChar(ReplaceDoubleDot(n1), ".", " ")
        n3 == ReplaceChar(n2, "_", " ")
        name == Strip(CollapseSpaces(n3))
    IN IF Contains(name, SepDash) THEN Some(SplitOnSep(name))
       ELSE IF Contains(Lower(name), SepBy)
       THEN LET at == Find(Lower(name), SepBy)
                before == Strip(SubSeq(name, 1, at - 1))
                after == Strip(SubSeq(name, at + 4, Len(name)))
            IN Some(ParsedRecord(CutFeaturing(before), after))
       ELSE LET d1 == FirstDashFrom(name, 1)
            IN IF d1 <= Len(name)
               THEN LET d2 == FirstDashFrom(name, d1 + 1)
                    IN Some(ParsedRecord(Strip(SubSeq(name, 1, d1 - 1)),
                                         Strip(SubSeq(name, d1 + 1, d2 - 1))))
               ELSE None

parse_strict(stem) ==
    LET name == ReplaceChar(stem, "_", " ")
    IN IF Contains(name, SepDash) THEN Some(SplitOnSep(name)) ELSE None

parse_filename(filename, oddities) ==
    IF oddities THEN parse_oddities(Stem(filename)) ELSE parse_strict(Stem(filename))

\* ------------------------------------------------------------------------
\* JSON values of the catalog's responses: a tagged tuple per Python type
\* ------------------------------------------------------------------------
JMissing == <<"missing">>          \* the key is absent from the dict
JNone == <<"none">>                \* JSON null
JStr(s) == <<"str", s>>
JInt(n) == <<"int", n>>
JList(l) == <<"list", l>>
JDict(d) == <<"dict", d>>
JTag(j) == j[1]
JVal(j) == j[2]

Digits == <<"0","1","2","3","4","5","6","7","8","9">>

RECURSIVE NatToStr(_)
NatToStr(n) ==
    IF n < 10 THEN <<Digits[n + 1]>> ELSE NatToStr(n \div 10) \o <<Digits[(n % 10) + 1]>>

\* str(x), also what an f-string prints for x
PyStr(j) ==
    CASE JTag(j) = "str" -> JVal(j)
      [] JTag(j) = "int" -> NatToStr(JVal(j))
      [] OTHER -> <<"N","o","n","e">>

\* dict.get(key, '') of a key that may be absent
GetOrEmpty(j) == IF j = JMissing THEN JStr(<<>>) ELSE j

\* Python truthiness of a JSON value
Truthy(j) ==
    CASE JTag(j) = "missing" -> FALSE
      [] JTag(j) = "none" -> FALSE
      [] JTag(j) = "int" -> JVal(j) # 0
      [] JTag(j) = "dict" -> TRUE
      [] OTHER -> JVal(j) # <<>>

\* ------------------------------------------------------------------------
\* find_best_match
\* ------------------------------------------------------------------------
\* the try block of the loop body: Some(lower-cased first artist name), or
\* None when the candidate is skipped by a `continue`
ResultArtist(result) ==
    LET artists == result.artists
    IN IF ~Truthy(artists) \/ JTag(artists) # "list" \/ Len(JVal(artists)) = 0
       THEN None
       ELSE IF JTag(JVal(artists)[1]) # "dict" THEN None
       ELSE LET result_artist == GetOrEmpty(JVal(JVal(artists)[1]).name)
            IN IF JTag(result_artist) # "str" THEN None
               ELSE Some(Lower(JVal(result_artist)))

Accepts(result, artist_lower, song_lower) ==
    LET ra == ResultArtist(result)
        result_song == Lower(PyStr(GetOrEmpty(result.song_title)))
    IN /\ ~IsNone(ra)
       /\ (Contains(Val(ra), artist_lower) \/ Contains(artist_lower, Val(ra)))
       /\ (Contains(result_song, song_lower) \/ Contains(song_lower, result_song))

RECURSIVE ScanResults(_, _, _)
ScanResults(results, artist_lower, song_lower) ==
    IF results = <<>> THEN None
    ELSE IF Accepts(Head(results), artist_lower, song_lower) THEN Some(Head(results))
    ELSE ScanResults(Tail(results), artist_lower, song_lower)

\* the scan run from the last candidate to the first
find_best_match_Last(imvdb_results, parsed_filename) ==
    IF IsNone(imvdb_results) \/ Val(imvdb_results) = <<>> THEN None
    ELSE LET rs == Val(imvdb_results)
         IN ScanResults([i \in 1..Len(rs) |-> rs[Len(rs) + 1 - i]],
                        Lower(parsed_filename.artist), Lower(parsed_filename.song))

\* imvdb_results: None, or Some(the 'results' list of the response)
find_best_match(imvdb_results, parsed_filename) ==
    IF IsNone(imvdb_results) \/ Val(imvdb_results) = <<>> THEN None
    ELSE ScanResults(Val(imvdb_results),
                     Lower(parsed_filename.artist), Lower(parsed_filename.song))

\* ------------------------------------------------------------------------
\* is_youtube_better
\* ------------------------------------------------------------------------
\* Python's `x or 0` for a number-or-None field
OrZero(x) == IF IsNone(x) THEN 0 ELSE Val(x)

\* is_youtube_better without the bitrate floor
is_youtube_better_NoFloor(local_info, yt_info) ==
    IF IsNone(local_info) \/ IsNone(yt_info) THEN FALSE
    ELSE OrZero(Val(yt_info).height) > OrZero(Val(local_info).height) + 100

\* local_info, yt_info: None or Some(profile); a profile's height and vbr
\* are None or Some(number)
is_youtube_better(local_info, yt_info) ==
    IF IsNone(local_info) \/ IsNone(yt_info) THEN FALSE
    ELSE LET yt_vbr == OrZero(Val(yt_info).vbr)
         IN IF yt_vbr < 100 THEN FALSE
            ELSE LET local_height == OrZero(Val(local_info).height)
                     yt_height == OrZero(Val(yt_info).height)
                 IN IF yt_height > local_height + 100 THEN TRUE ELSE FALSE

\* ------------------------------------------------------------------------
\* Configuration
\* ------------------------------------------------------------------------
VIDEO_EXTENSIONS ==
    { <<".","m","p","4">>,
      <<".","m","k","v">>,
      <<".","a","v","i">>,
      <<".","w","e","b","m">>,
      <<".","m","o","v">>,
      <<".","f","l","v">>,
      <<".","w","m","v">>,
      <<".","m","4","v">>,
      <<".","m","p","g">>,
      <<".","m","p","e","g">>,
      <<".","m","2","v">> }

\* ------------------------------------------------------------------------
\* Inputs: the file names found by the walk and the answers of the external
\* services (catalog, host service, ffprobe)
\* ------------------------------------------------------------------------
FileNames ==
    << <<"A","b","_","-","_","C","d",".","a","v","i">>,
       <<"A","b"," ","-"," ","C","d"," ","(","x",")",".","M","P","4">>,
       <<"A","b"," ","-"," ","C","d"," ","(","O","r","i","g","i","n","a","l",")",".","m","k","v">>,
       <<"A","b","-","C","d",".","a","v","i">>,
       <<"n","o","t","e","s",".","t","x","t">> >>

\* catalog search stubs
CandMatch == [artists |-> JList(<<JDict([name |-> JStr(<<"A","b","c">>)])>>),
              song_title |-> JStr(<<"C","d","e">>), id |-> JInt(7)]
CandOther == [artists |-> JList(<<JDict([name |-> JStr(<<"Z","z">>)])>>),
              song_title |-> JStr(<<"C","d">>), id |-> JInt(8)]
CandEmpty == [artists |-> JList(<<JDict([name |-> JMissing])>>),
              song_title |-> JMissing, id |-> JInt(9)]
CandNoArtists == [artists |-> JNone, song_title |-> JStr(<<"C","d">>), id |-> JInt(10)]
Candidates == {CandMatch, CandOther, CandEmpty, CandNoArtists}

\* sequences over S of length at most n
SeqsUpTo(S, n) == UNION {[1..k -> S] : k \in 0..n}

SearchResponses == {None} \cup {Some(r) : r \in SeqsUpTo(Candidates, MaxResults)}

\* catalog detail records: the fields the program reads
SrcPrimary == [source |-> "youtube", is_primary |-> TRUE, source_data |-> Some("ytC")]
SrcSecondary == [source |-> "youtube", is_primary |-> FALSE, source_data |-> Some("ytN")]
SrcVimeo == [source |-> "vimeo", is_primary |-> TRUE, source_data |-> Some("vim")]
SrcBroken == [source |-> "youtube", is_primary |-> TRUE, source_data |-> None]

DetailsSet ==
    [year : {None, Some(<<"1","9","9","7">>)},
     sources : {<<>>, <<SrcVimeo, SrcPrimary>>, <<SrcSecondary>>, <<SrcBroken>>},
     artists : {None, Some(<<"A","b","c">>)},
     song_title : {Some(<<"C","d","e">>)},
     directors_ok : {TRUE}]
      \cup
    [year : {None}, sources : {<<SrcPrimary>>}, artists : {None},
     song_title : {None, Some(<<"C","d","e">>)}, directors_ok : {FALSE}]
      \cup
    [year : {None}, sources : {<<SrcPrimary>>}, artists : {None},
     song_title : {None}, directors_ok : {TRUE}]

\* host-service search records
YtInfos ==
    { [id |-> Some("ytS"), artist |-> Some(<<"A","y"," ","f","e","a","t","."," ","Z">>), track |-> Some(<<"T","y">>),
       upload_date |-> Some(<<"2","0","0","9","0","6","1","5">>)],
      [id |-> Some("ytS"), artist |-> None, track |-> None, upload_date |-> None],
      [id |-> None, artist |-> Some(<<"A","y">>), track |-> None, upload_date |-> Some(<<"2","0","0","9","0","6","1","5">>)] }

\* media profiles
LocalInfos == {None, Some([height |-> Some(480)])}
YtFormats == {None, Some([height |-> None, vbr |-> None])}
                \cup {Some([height |-> h, vbr |-> b]) :
                         h \in {Some(580), Some(581)}, b \in {Some(99), Some(100)}}

\* ------------------------------------------------------------------------
\* State
\* ------------------------------------------------------------------------
VARIABLES
    pc,              \* position of the run
    oddities,        \* the --oddities flag
    walk,            \* the file names os.walk yields, in order
    idx,             \* index in walk of the file being visited
    processed,       \* process_directory's counters
    failed,
    handed,          \* the file names handed to process_file so far
    outcomes,        \* how each process_file call so far ended
    source,          \* the file names still at their source path
    tree,            \* the media files of the target tree
    dirs,            \* the directories created under the target root
    nfos,            \* the directories that hold a sidecar (video.nfo)
    calls,           \* the external calls of the current file or entry
    parsed,          \* locals of process_file
    match,
    metadata,
    should_download,
    local_info,
    yt_formats,
    target_path,
    final_filename,
    videos,          \* the entity's catalog entries (bulk scraping)
    vidx,            \* index in videos of the entry being visited
    visited,         \* the indices of the entries visited so far
    entry,           \* locals of the scrape loop body between its two steps
    mode,            \* what main runs: "source", "artist", "director"
    aLocal,          \* inputs and result of the quality comparison on its own
    aRemote,
    aResult,
    fnIn,            \* argument and result of a pure function applied on its own
    fnOut

vars == <<pc, oddities, walk, idx, processed, failed, handed, outcomes, source, tree,
          dirs, nfos, calls, parsed, match, metadata, should_download, local_info,
          yt_formats, target_path, final_filename, videos, vidx, visited,
          entry, mode, aLocal, aRemote, aResult, fnIn, fnOut>>

walkVars == <<oddities, walk>>
fsVars == <<source, tree, dirs, nfos>>
localVars == <<parsed, match, metadata, should_download, local_info, yt_formats,
               target_path, final_filename>>
scrapeVars == <<videos, vidx, visited, entry, mode>>
arbiterVars == <<aLocal, aRemote, aResult, fnIn, fnOut>>

\* an external call, its argument and its result: "ok", "none", "raise",
\* "fail", or "yes" and "no" for a filesystem test
Call(op, arg, res) == [op |-> op, arg |-> arg, res |-> res]
Called(op) == \E i \in 1..Len(calls) : calls[i].op = op
CalledWith(op, res) == \E i \in 1..Len(calls) : calls[i].op = op /\ calls[i].res = res
CountCalls(op) == Cardinality({i \in 1..Len(calls) : calls[i].op = op})

\* the file at dir/name is created or replaced
TreePut(t, dir, name, content) ==
    {e \in t : ~(e.dir = dir /\ e.name = name)}
        \cup {[dir |-> dir, name |-> name, content |-> content]}

TreeHas(t, dir, name) == \E e \in t : e.dir = dir /\ e.name = name

\* create_nfo writes (or rewrites) video.nfo in dir; the model keeps which
\* directories hold a sidecar, not the text written
NfoPut(n, dir, meta) == n \cup {dir}

\* ------------------------------------------------------------------------
\* process_file: decisions
\* ------------------------------------------------------------------------
\* the query made of the song alone
SearchQuery_SongOnly(p) == p.song

SearchQuery(p) == p.artist \o <<" ">> \o p.song

InitialMetadata(p) ==
    [artist |-> p.artist, song_title |-> JStr(p.song), extra_info |-> p.extra_info,
     year |-> None, youtube_id |-> None]

\* the first source that is the primary youtube source
RECURSIVE PrimaryYoutube(_)
PrimaryYoutube(sources) ==
    IF sources = <<>> THEN None
    ELSE IF Head(sources).source = "youtube" /\ Head(sources).is_primary
         THEN Some(Head(sources))
         ELSE PrimaryYoutube(Tail(sources))

\* the quality decision of process_file
ShouldDownload(li, yf) ==
    IF ~IsNone(li) /\ ~IsNone(yf)
    THEN LET yt_vbr == OrZero(Val(yf).vbr)
         IN IF yt_vbr < 100 THEN FALSE
            ELSE IF is_youtube_better(li, yf) THEN TRUE
            ELSE TRUE
    ELSE FALSE

Mp4 == <<".", "m", "p", "4">>
OriginalMark == <<"(", "o", "r", "i", "g", "i", "n", "a", "l", ")">>
OriginalSuffix == <<" ", "(", "o", "r", "i", "g", "i", "n", "a", "l", ")">>

\* "{artist} - {song_title}"
CanonicalStem(m) == m.artist \o SepDash \o PyStr(m.song_title)

TargetPath(m) ==
    <<sanitize_filename(get_primary_artist(m.artist)), sanitize_filename(CanonicalStem(m))>>

IsAlreadyOriginal(filename) == Contains(Lower(Stem(filename)), OriginalMark)

\* the fallback uses the marked name of the original
FinalFilename_Marked(filename, m, p) ==
    sanitize_filename(Stem(filename) \o OriginalSuffix \o Suffix(filename))

FinalFilename(filename, m, p) ==
    sanitize_filename(
        IF IsAlreadyOriginal(filename) THEN filename
        ELSE IF ~IsNone(p.extra_info) /\ Val(p.extra_info) # <<>>
             THEN CanonicalStem(m) \o <<" ">> \o Val(p.extra_info) \o Suffix(filename)
             ELSE CanonicalStem(m) \o Suffix(filename))

DownloadFilename(m) == sanitize_filename(CanonicalStem(m) \o Mp4)

\* the original keeps its name without the marker
OriginalNewName_NoMark(filename) == sanitize_filename(filename)

OriginalNewName(filename) ==
    sanitize_filename(Stem(filename) \o OriginalSuffix \o Suffix(filename))

\* the download condition without the test of the (original) marker
WantsDownload_IgnoreMark(filename, m, sd) == sd /\ ~IsNone(m.youtube_id)

WantsDownload(filename, m, sd) ==
    sd /\ ~IsNone(m.youtube_id) /\ ~IsAlreadyOriginal(filename)

\* ------------------------------------------------------------------------
\* process_directory and process_file
\* ------------------------------------------------------------------------
CurrentFile == walk[idx]

IsVideo(filename) == Lower(Suffix(filename)) \in VIDEO_EXTENSIONS

ResetLocals ==
    /\ parsed' = None
    /\ match' = None
    /\ metadata' = None
    /\ should_download' = FALSE
    /\ local_info' = None
    /\ yt_formats' = None
    /\ target_path' = None
    /\ final_filename' = None

\* the counters after a process_file call that ended as res
NextProcessed(res, n) == IF res = "true" THEN n + 1 ELSE n
\* a raised exception is not counted
NextFailed_FalseOnly(res, n) == IF res = "false" THEN n + 1 ELSE n

NextFailed(res, n) == IF res = "true" THEN n ELSE n + 1

\* process_file returns (res is "true" or "false") or raises ("raised");
\* process_directory counts the file and goes on with the walk.  The locals
\* keep the values they had when the call ended until the next call starts.
Return(res) ==
    /\ pc' = "walk"
    /\ idx' = idx + 1
    /\ outcomes' = Append(outcomes, res)
    /\ processed' = NextProcessed(res, processed)
    /\ failed' = NextFailed(res, failed)
    /\ UNCHANGED <<walkVars, handed, scrapeVars, arbiterVars>>

\* this step of process_file goes on to the step at label
Goto(label) ==
    /\ pc' = label
    /\ UNCHANGED <<walkVars, idx, processed, failed, handed, outcomes,
                   scrapeVars, arbiterVars>>

\* the walk reaches a video file: process_file is called on it
VisitVideo ==
    /\ pc = "walk"
    /\ idx <= Len(walk)
    /\ IsVideo(CurrentFile)
    /\ pc' = "parse"
    /\ handed' = Append(handed, CurrentFile)
    /\ calls' = <<>>
    /\ ResetLocals
    /\ UNCHANGED <<walkVars, idx, processed, failed, outcomes, fsVars, scrapeVars,
                   arbiterVars>>

\* the walk reaches a file that is not a video
SkipOther ==
    /\ pc = "walk"
    /\ idx <= Len(walk)
    /\ ~IsVideo(CurrentFile)
    /\ idx' = idx + 1
    /\ UNCHANGED <<pc, walkVars, processed, failed, handed, outcomes, fsVars, calls,
                   localVars, scrapeVars, arbiterVars>>

\* the walk is over: the totals are printed
WalkDone ==
    /\ pc = "walk"
    /\ idx > Len(walk)
    /\ pc' = "done"
    /\ UNCHANGED <<walkVars, idx, processed, failed, handed, outcomes, fsVars, calls,
                   localVars, scrapeVars, arbiterVars>>

ParseName ==
    /\ pc = "parse"
    /\ LET p == parse_filename(CurrentFile, oddities)
       IN /\ parsed' = p
          /\ IF IsNone(p) THEN Return("false") ELSE Goto("search")
    /\ UNCHANGED <<fsVars, calls, match, metadata, should_download, local_info,
                   yt_formats, target_path, final_filename>>

\* the match can be used by process_file: the keys it subscripts are there
MatchUsable(m) ==
    /\ JVal(JVal(m.artists)[1]).name # JMissing
    /\ m.song_title # JMissing

\* imvdb.search_videos returns resp; find_best_match; the metadata record
SearchCatalogReturns(resp) ==
    LET m == find_best_match(resp, Val(parsed))
        md == InitialMetadata(Val(parsed))
    IN /\ match' = m
       /\ IF IsNone(m)
          THEN /\ metadata' = Some(md)
               /\ Goto("ytsearch")
          ELSE IF ~MatchUsable(Val(m))
          THEN /\ metadata' = Some(md)
               /\ Return("raised")          \* KeyError on the match
          ELSE /\ metadata' = Some([md EXCEPT
                       !.artist = JVal(JVal(JVal(Val(m).artists)[1]).name),
                       !.song_title = Val(m).song_title])
               /\ Goto("details")

SearchCatalog ==
    /\ pc = "search"
    /\ \/ \E resp \in SearchResponses :
             /\ calls' = Append(calls, Call("search_videos", SearchQuery(Val(parsed)),
                                            IF IsNone(resp) THEN "none" ELSE "ok"))
             /\ SearchCatalogReturns(resp)
       \/ \* requests.get or response.json() raises
          /\ calls' = Append(calls, Call("search_videos", SearchQuery(Val(parsed)),
                                         "raise"))
          /\ Return("raised")
          /\ UNCHANGED <<match, metadata>>
    /\ UNCHANGED <<fsVars, parsed, should_download, local_info, yt_formats,
                   target_path, final_filename>>

\* imvdb.get_video_details returns Some(d): the metadata is filled in
DetailsApplied(md, d) ==
    LET src == PrimaryYoutube(d.sources)
    IN [md EXCEPT !.year = d.year,
                  !.youtube_id = IF IsNone(src) THEN None ELSE Val(src).source_data]

\* reading the detail record raises a KeyError
DetailsRaise(d) ==
    \/ ~d.directors_ok
    \/ LET src == PrimaryYoutube(d.sources)
       IN ~IsNone(src) /\ IsNone(Val(src).source_data)

FetchDetails ==
    /\ pc = "details"
    /\ IF Val(match).id = JMissing
       THEN /\ Return("raised")
            /\ UNCHANGED <<calls, metadata>>
       ELSE \/ \* the request raises
               /\ calls' = Append(calls, Call("get_video_details", Val(match).id, "raise"))
               /\ Return("raised")
               /\ UNCHANGED metadata
            \/ \* no details
               /\ calls' = Append(calls, Call("get_video_details", Val(match).id, "none"))
               /\ Goto("ytsearch")
               /\ UNCHANGED metadata
            \/ \E d \in DetailsSet :
                  /\ calls' = Append(calls, Call("get_video_details", Val(match).id, "ok"))
                  /\ IF DetailsRaise(d)
                     THEN /\ Return("raised")
                          /\ UNCHANGED metadata
                     ELSE /\ metadata' = Some(DetailsApplied(Val(metadata), d))
                          /\ Goto("ytsearch")
    /\ UNCHANGED <<fsVars, parsed, match, should_download, local_info, yt_formats,
                   target_path, final_filename>>

\* the host-service names taken whether or not the catalog matched
HostApplied_Always(md, yt, matched) ==
    LET m1 == [md EXCEPT !.youtube_id = yt.id]
        m2 == IF ~IsNone(yt.artist) /\ Val(yt.artist) # <<>>
              THEN [m1 EXCEPT !.artist = Val(yt.artist)] ELSE m1
        m3 == IF ~IsNone(yt.track) /\ Val(yt.track) # <<>>
              THEN [m2 EXCEPT !.song_title = JStr(Val(yt.track))] ELSE m2
    IN IF IsNone(m3.year) /\ ~IsNone(yt.upload_date) /\ Val(yt.upload_date) # <<>>
       THEN [m3 EXCEPT !.year = Some(SubSeq(Val(yt.upload_date), 1, 4))] ELSE m3

\* the metadata after ytdlp.get_video_info returned Some(yt)
HostApplied(md, yt, matched) ==
    LET m1 == [md EXCEPT !.youtube_id = yt.id]
        m2 == IF ~matched /\ ~IsNone(yt.artist) /\ Val(yt.artist) # <<>>
              THEN [m1 EXCEPT !.artist = Val(yt.artist)] ELSE m1
        m3 == IF ~matched /\ ~IsNone(yt.track) /\ Val(yt.track) # <<>>
              THEN [m2 EXCEPT !.song_title = JStr(Val(yt.track))] ELSE m2
    IN IF IsNone(m3.year) /\ ~IsNone(yt.upload_date) /\ Val(yt.upload_date) # <<>>
       THEN [m3 EXCEPT !.year = Some(SubSeq(Val(yt.upload_date), 1, 4))] ELSE m3

\* the check "no match anywhere" that follows the host-service search
\* the check for "no match anywhere" left out
NoMatchAnywhere_Never(m, md) == FALSE

NoMatchAnywhere(m, md) == IsNone(m) /\ IsNone(md.youtube_id)

AfterHostSearch(md) ==
    /\ metadata' = Some(md)
    /\ IF NoMatchAnywhere(match, md) THEN Return("false") ELSE Goto("quality")

HostSearch ==
    /\ pc = "ytsearch"
    /\ IF ~IsNone(Val(metadata).youtube_id)
       THEN /\ AfterHostSearch(Val(metadata))
            /\ UNCHANGED calls
       ELSE \/ \* no result
               /\ calls' = Append(calls, Call("get_video_info",
                                              SearchQuery(Val(parsed)), "none"))
               /\ AfterHostSearch(Val(metadata))
            \/ \E yt \in YtInfos :
                  /\ calls' = Append(calls, Call("get_video_info",
                                                 SearchQuery(Val(parsed)), "ok"))
                  /\ AfterHostSearch(HostApplied(Val(metadata), yt, ~IsNone(match)))
    /\ UNCHANGED <<fsVars, parsed, match, should_download, local_info, yt_formats,
                   target_path, final_filename>>

CompareQuality ==
    /\ pc = "quality"
    /\ IF ~IsNone(Val(metadata).youtube_id)
       THEN /\ \E li \in LocalInfos, yf \in YtFormats :
                 /\ local_info' = li
                 /\ yt_formats' = yf
                 /\ should_download' = ShouldDownload(li, yf)
            /\ calls' = calls \o <<Call("ffprobe", CurrentFile, "ok"),
                                   Call("get_best_formats",
                                        Val(Val(metadata).youtube_id), "ok")>>
       ELSE UNCHANGED <<should_download, local_info, yt_formats, calls>>
    /\ Goto("plan")
    /\ UNCHANGED <<fsVars, parsed, match, metadata, target_path, final_filename>>

PlanLayout ==
    /\ pc = "plan"
    /\ target_path' = Some(TargetPath(Val(metadata)))
    /\ dirs' = dirs \cup {TargetPath(Val(metadata))}
    /\ final_filename' = Some(FinalFilename(CurrentFile, Val(metadata), Val(parsed)))
    /\ calls' = Append(calls, Call("mkdir", TargetPath(Val(metadata)), "ok"))
    /\ Goto("apply")
    /\ UNCHANGED <<source, tree, nfos, parsed, match, metadata, should_download,
                   local_info, yt_formats>>

\* shutil.move of the source file to name in the target directory
MoveTo(t, name) == TreePut(t, Val(target_path), name, <<"file", CurrentFile>>)

ApplyPlan ==
    /\ pc = "apply"
    /\ IF WantsDownload(CurrentFile, Val(metadata), should_download)
       THEN LET id == Val(Val(metadata).youtube_id)
                dl == DownloadFilename(Val(metadata))
                moved == Call("move", OriginalNewName(CurrentFile), "ok")
            IN \/ \* the download succeeds
                  /\ \E t \in {TreePut(tree, Val(target_path), dl, <<"yt", id>>)}
                            \cup (IF TreeHas(tree, Val(target_path), dl)
                                  THEN {tree} ELSE {}) :
                        tree' = TreePut(t, Val(target_path), OriginalNewName(CurrentFile),
                                        <<"file", CurrentFile>>)
                  /\ calls' = calls \o <<Call("download_video", <<id, dl>>, "ok"), moved>>
               \/ \* the download fails
                  /\ tree' = MoveTo(tree, Val(final_filename))
                  /\ calls' = calls \o <<Call("download_video", <<id, dl>>, "fail"),
                                         Call("move", Val(final_filename), "ok")>>
       ELSE /\ tree' = MoveTo(tree, Val(final_filename))
            /\ calls' = Append(calls, Call("move", Val(final_filename), "ok"))
    /\ source' = source \ {CurrentFile}
    /\ Goto("nfo")
    /\ UNCHANGED <<dirs, nfos, localVars>>

WriteSidecar ==
    /\ pc = "nfo"
    /\ nfos' = NfoPut(nfos, Val(target_path), Val(metadata))
    /\ calls' = Append(calls, Call("create_nfo", Val(target_path), "ok"))
    /\ Return("true")
    /\ UNCHANGED <<source, tree, dirs, localVars>>

\* ------------------------------------------------------------------------
\* scrape_artist and scrape_director
\* ------------------------------------------------------------------------
ArtistSlug == <<"a","b","c">>
Unknown == <<"U","n","k","n","o","w","n">>

\* the entity's video stubs
VideoStubs ==
    { [id |-> JInt(7), song_title |-> JStr(<<"C","d","e">>), artists |-> Some(<<"A","b","c">>)],
      [id |-> JInt(8), song_title |-> JStr(<<"E","f">>), artists |-> None],
      [id |-> JInt(9), song_title |-> JMissing, artists |-> Some(<<"A","b","c">>)] }

EntityResponses == SeqsUpTo(VideoStubs, MaxVideos)

\* files an earlier run may have left in the target tree
OldFiles ==
    { [dir |-> <<<<"A","b","c">>, <<"A","b","c"," ","-"," ","C","d","e">>>>, name |-> <<"A","b","c"," ","-"," ","C","d","e",".","m","p","4">>, content |-> <<"old", "">>],
      [dir |-> <<<<"a","b","c">>, <<"a","b","c"," ","-"," ","C","d","e">>>>, name |-> <<"a","b","c"," ","-"," ","C","d","e",".","m","p","4">>, content |-> <<"old", "">>] }

\* the first source tagged youtube, primary or not
RECURSIVE FirstYoutube(_)
FirstYoutube(sources) ==
    IF sources = <<>> THEN None
    ELSE IF Head(sources).source = "youtube" THEN Some(Head(sources))
    ELSE FirstYoutube(Tail(sources))

ScrapeDir(artist_name, song_title) ==
    <<sanitize_filename(artist_name),
      sanitize_filename(artist_name \o SepDash \o song_title)>>

ScrapeDownloadName(artist_name, song_title) ==
    sanitize_filename(artist_name \o SepDash \o song_title \o Mp4)

\* the existence test left out
DownloadPathExists_Never(t, tp, dl) == FALSE

\* download_path.exists()
DownloadPathExists(t, tp, dl) == TreeHas(t, tp, dl)

\* an uncaught exception leaves the scrape loop and ends the program
Crash ==
    /\ pc' = "crashed"
    /\ entry' = None
    /\ UNCHANGED <<videos, vidx, mode>>

NextEntry ==
    /\ pc' = "scrape"
    /\ vidx' = vidx + 1
    /\ entry' = None
    /\ UNCHANGED <<videos, mode>>

\* imvdb.get_entity_videos and the test on its result
FetchEntity ==
    /\ pc = "entity"
    /\ \/ /\ pc' = "crashed"                \* the request raises
          /\ calls' = <<Call("get_entity_videos", mode, "raise")>>
          /\ UNCHANGED videos
       \/ /\ pc' = "done"                   \* no videos found
          /\ calls' = <<Call("get_entity_videos", mode, "none")>>
          /\ UNCHANGED videos
       \/ \E r \in EntityResponses :
             /\ videos' = r
             /\ calls' = <<Call("get_entity_videos", mode, "ok")>>
             /\ pc' = "scrape"
    /\ UNCHANGED <<walkVars, idx, processed, failed, handed, outcomes, fsVars, localVars,
                   vidx, visited, entry, mode, arbiterVars>>

\* the loop body up to the test of download_path.exists(), once the detail
\* record d is there; artist_name and song_title are None when reading them
\* raises a KeyError
EntryPlanned(d, artist_name, song_title, fetched) ==
    LET src == FirstYoutube(d.sources)
    IN IF IsNone(src)
       THEN /\ NextEntry                     \* no YouTube source
            /\ calls' = fetched
            /\ UNCHANGED dirs
       ELSE IF IsNone(Val(src).source_data) \/ IsNone(artist_name) \/ IsNone(song_title)
       THEN /\ Crash
            /\ calls' = fetched
            /\ UNCHANGED dirs
       ELSE LET tp == ScrapeDir(Val(artist_name), Val(song_title))
                dl == ScrapeDownloadName(Val(artist_name), Val(song_title))
            IN /\ dirs' = dirs \cup {tp}
               /\ calls' = fetched \o <<Call("mkdir", tp, "ok"),
                                        Call("exists", <<tp, dl>>,
                                             IF TreeHas(tree, tp, dl) THEN "yes" ELSE "no")>>
               /\ IF DownloadPathExists(tree, tp, dl)
                  THEN NextEntry             \* already exists, skipping
                  ELSE /\ pc' = "download"
                       /\ entry' = Some([target_path |-> tp, download_filename |-> dl,
                                         youtube_id |-> Val(Val(src).source_data),
                                         artist_name |-> Val(artist_name),
                                         song_title |-> Val(song_title),
                                         details |-> d])
                       /\ UNCHANGED <<videos, vidx, mode>>

\* the artist name and the song title the paths are built from: None when
\* reading them raises a KeyError
ArtistOf(kind, video, d) ==
    IF kind = "artist"
    THEN IF IsNone(d.artists) THEN Some(ArtistSlug) ELSE d.artists
    ELSE IF IsNone(video.artists) THEN Some(Unknown) ELSE video.artists

TitleOf(kind, video, d) ==
    IF kind = "artist" THEN d.song_title ELSE Some(PyStr(video.song_title))

\* the loop body from its start to the detail fetch and what follows it
EntryFetch(kind, video) ==
    /\ visited' = visited \cup {vidx}
    /\ IF video.song_title = JMissing \/ video.id = JMissing
       THEN /\ Crash
            /\ calls' = <<>>
            /\ UNCHANGED dirs
       ELSE \/ /\ Crash                      \* the request raises
               /\ calls' = <<Call("get_video_details", video.id, "raise")>>
               /\ UNCHANGED dirs
            \/ /\ NextEntry                  \* no details
               /\ calls' = <<Call("get_video_details", video.id, "none")>>
               /\ UNCHANGED dirs
            \/ \E d \in DetailsSet :
                  EntryPlanned(d, ArtistOf(kind, video, d), TitleOf(kind, video, d),
                               <<Call("get_video_details", video.id, "ok")>>)
    /\ UNCHANGED <<walkVars, idx, processed, failed, handed, outcomes, source, tree, nfos,
                   localVars, arbiterVars>>

ScrapeArtistEntry ==
    /\ pc = "scrape"
    /\ mode = "artist"
    /\ vidx <= Len(videos)
    /\ EntryFetch("artist", videos[vidx])

ScrapeDirectorEntry ==
    /\ pc = "scrape"
    /\ mode = "director"
    /\ vidx <= Len(videos)
    /\ EntryFetch("director", videos[vidx])

\* ytdlp.download_video and, when it succeeds, the sidecar
ScrapeDownload ==
    /\ pc = "download"
    /\ LET e == Val(entry)
           dl(res) == Call("download_video", <<e.youtube_id, e.download_filename>>, res)
       IN \/ /\ tree' = TreePut(tree, e.target_path, e.download_filename,
                                <<"yt", e.youtube_id>>)
             /\ IF e.details.directors_ok
                THEN /\ nfos' = NfoPut(nfos, e.target_path,
                                       [artist |-> e.artist_name,
                                        song_title |-> JStr(e.song_title),
                                        extra_info |-> None,
                                        year |-> e.details.year,
                                        youtube_id |-> Some(e.youtube_id)])
                     /\ calls' = calls \o <<dl("ok"), Call("create_nfo", e.target_path, "ok")>>
                     /\ NextEntry
                ELSE /\ Crash               \* KeyError while building the metadata
                     /\ calls' = Append(calls, dl("ok"))
                     /\ UNCHANGED nfos
          \/ /\ NextEntry                   \* download failed
             /\ calls' = Append(calls, dl("fail"))
             /\ UNCHANGED <<tree, nfos>>
    /\ UNCHANGED <<walkVars, idx, processed, failed, handed, outcomes, source, dirs,
                   localVars, visited, arbiterVars>>

\* the loop over the entity's videos is over
ScrapeDone ==
    /\ pc = "scrape"
    /\ vidx > Len(videos)
    /\ pc' = "done"
    /\ UNCHANGED <<walkVars, idx, processed, failed, handed, outcomes, fsVars, calls,
                   localVars, scrapeVars, arbiterVars>>

\* ------------------------------------------------------------------------
\* The quality comparison on its own
\* ------------------------------------------------------------------------
ArbiterLocals ==
    {None} \cup {Some([height |-> h]) :
                    h \in {None, Some(0), Some(479), Some(480), Some(481), Some(1080)}}
ArbiterRemotes ==
    {None} \cup {Some([height |-> h, vbr |-> b]) :
                    h \in {None, Some(100), Some(101), Some(580), Some(581), Some(1080)},
                    b \in {None, Some(0), Some(99), Some(100), Some(2500)}}

Compare ==
    /\ pc = "arbiter"
    /\ aResult' = Some(is_youtube_better(aLocal, aRemote))
    /\ pc' = "done"
    /\ UNCHANGED <<walkVars, idx, processed, failed, handed, outcomes, fsVars, calls,
                   localVars, scrapeVars, aLocal, aRemote, fnIn, fnOut>>

\* ------------------------------------------------------------------------
\* find_best_match on its own
\* ------------------------------------------------------------------------
\* candidates as the catalog may send them, well formed or not
MatchCandidates ==
    Candidates \cup
    { \* names and titles in another case
      [artists |-> JList(<<JDict([name |-> JStr(<<"A","B">>)])>>),
       song_title |-> JStr(<<"O","N","E">>), id |-> JInt(11)],
      \* a null title, a numeric title
      [artists |-> JList(<<JDict([name |-> JStr(<<"A","b","c">>)])>>),
       song_title |-> JNone, id |-> JInt(12)],
      [artists |-> JList(<<JDict([name |-> JStr(<<"A","b","c">>)])>>),
       song_title |-> JInt(7), id |-> JInt(13)],
      \* an empty artist list, a string for the list, a string for the first
      \* artist, a number for the artist name
      [artists |-> JList(<<>>), song_title |-> JStr(<<"C","d">>), id |-> JInt(14)],
      [artists |-> JStr(<<"A","b">>), song_title |-> JStr(<<"C","d">>), id |-> JInt(15)],
      [artists |-> JList(<<JStr(<<"A","b">>)>>), song_title |-> JStr(<<"C","d">>),
       id |-> JInt(16)],
      [artists |-> JList(<<JDict([name |-> JInt(7)])>>), song_title |-> JStr(<<"C","d">>),
       id |-> JInt(17)] }

MatchResponses == {None} \cup {Some(r) : r \in SeqsUpTo(MatchCandidates, MaxResults)}

\* what parse_filename returned for the file
MatchParsed ==
    { ParsedRecord(<<"A","b">>, <<"C","d">>),
      ParsedRecord(<<"a","b","c">>, <<"O","n","e">>),
      ParsedRecord(<<"Z","Z">>, <<"c","d">>),
      ParsedRecord(<<"A","b">>, <<"7">>) }

ApplyMatch ==
    /\ pc = "match"
    /\ fnOut' = Some(find_best_match(fnIn.results, fnIn.parsed))
    /\ pc' = "done"
    /\ UNCHANGED <<walkVars, idx, processed, failed, handed, outcomes, fsVars, calls,
                   localVars, scrapeVars, aLocal, aRemote, aResult, fnIn>>

\* ------------------------------------------------------------------------
\* sanitize_filename on its own
\* ------------------------------------------------------------------------
\* the characters of the names handed to sanitize_filename
NameChars == {"a", "B", "_", " ", "\t", "."} \cup {InvalidChars[i] : i \in 1..Len(InvalidChars)}

Names == SeqsUpTo(NameChars, MaxNameLen)

ApplySanitize ==
    /\ pc = "sanitize"
    /\ fnOut' = Some(sanitize_filename(fnIn))
    /\ pc' = "done"
    /\ UNCHANGED <<walkVars, idx, processed, failed, handed, outcomes, fsVars, calls,
                   localVars, scrapeVars, aLocal, aRemote, aResult, fnIn>>

\* ------------------------------------------------------------------------
\* parse_filename on its own
\* ------------------------------------------------------------------------
\* the characters of the file names handed to parse_filename
StemChars == {"A", "b", " ", "-", "_", "(", ")"}

\* file names: a stem followed by a media extension
ParseNames == {st \o <<".", "a", "v", "i">> : st \in SeqsUpTo(StemChars, MaxStemLen)}

ApplyParse ==
    /\ pc = "parsefn"
    /\ fnOut' = Some(parse_filename(fnIn, oddities))
    /\ pc' = "done"
    /\ UNCHANGED <<walkVars, idx, processed, failed, handed, outcomes, fsVars, calls,
                   localVars, scrapeVars, aLocal, aRemote, aResult, fnIn>>

\* ------------------------------------------------------------------------
\* Specifications
\* ------------------------------------------------------------------------
\* the walks: the directory lists its files in the order of FileNames and
\* holds any MaxFiles of them at most
Walks ==
    {w \in SeqsUpTo(1..Len(FileNames), MaxFiles) :
        \A i, j \in 1..Len(w) : i < j => w[i] < w[j]}

InitIdle ==
    /\ idx = 1
    /\ processed = 0
    /\ failed = 0
    /\ handed = <<>>
    /\ outcomes = <<>>
    /\ dirs = {}
    /\ nfos = {}
    /\ calls = <<>>
    /\ parsed = None
    /\ match = None
    /\ metadata = None
    /\ should_download = FALSE
    /\ local_info = None
    /\ yt_formats = None
    /\ target_path = None
    /\ final_filename = None
    /\ videos = <<>>
    /\ vidx = 1
    /\ visited = {}
    /\ entry = None
    /\ aResult = None
    /\ fnOut = None

\* the catalog key of the module, and the value main takes for "not set"
IMVDB_API_KEY == "YOUR_IMVDB_API_KEY"
PlaceholderKey == "YOUR_IMVDB_API_KEY"

\* main with --source
Init ==
    /\ InitIdle
    /\ mode = "source"
    /\ pc = "walk"
    /\ oddities \in BOOLEAN
    /\ \E w \in Walks : walk = [i \in 1..Len(w) |-> FileNames[w[i]]]
    /\ source = {walk[i] : i \in 1..Len(walk)}
    /\ tree = {}
    /\ aLocal = None
    /\ aRemote = None
    /\ fnIn = None

Next ==
    \/ VisitVideo
    \/ SkipOther
    \/ WalkDone
    \/ ParseName
    \/ SearchCatalog
    \/ FetchDetails
    \/ HostSearch
    \/ CompareQuality
    \/ PlanLayout
    \/ ApplyPlan
    \/ WriteSidecar

Spec == Init /\ [][Next]_vars

\* main with --artist or --director
InitScrape ==
    /\ InitIdle
    /\ mode \in {"artist", "director"}
    /\ pc = "entity"
    /\ oddities = FALSE
    /\ walk = <<>>
    /\ source = {}
    /\ tree \in SUBSET OldFiles
    /\ aLocal = None
    /\ aRemote = None
    /\ fnIn = None

NextScrape ==
    \/ FetchEntity
    \/ ScrapeArtistEntry
    \/ ScrapeDirectorEntry
    \/ ScrapeDownload
    \/ ScrapeDone

SpecScrape == InitScrape /\ [][NextScrape]_vars

\* is_youtube_better applied to each pair of profiles
InitArbiter ==
    /\ InitIdle
    /\ mode = "source"
    /\ pc = "arbiter"
    /\ oddities = FALSE
    /\ walk = <<>>
    /\ source = {}
    /\ tree = {}
    /\ aLocal \in ArbiterLocals
    /\ aRemote \in ArbiterRemotes
    /\ fnIn = None

NextArbiter == Compare

SpecArbiter == InitArbiter /\ [][NextArbiter]_vars

\* a pure function applied once to each input
InitPure ==
    /\ InitIdle
    /\ mode = "source"
    /\ walk = <<>>
    /\ source = {}
    /\ tree = {}
    /\ aLocal = None
    /\ aRemote = None

\* find_best_match applied to each response and parsed name
InitMatch ==
    /\ InitPure
    /\ pc = "match"
    /\ oddities = FALSE
    /\ fnIn \in [results : MatchResponses, parsed : MatchParsed]

NextMatch == ApplyMatch

SpecMatch == InitMatch /\ [][NextMatch]_vars

\* sanitize_filename applied to each name
InitSanitize ==
    /\ InitPure
    /\ pc = "sanitize"
    /\ oddities = FALSE
    /\ fnIn \in Names

NextSanitize == ApplySanitize

SpecSanitize == InitSanitize /\ [][NextSanitize]_vars

\* parse_filename applied to each file name, strict and permissive
InitParse ==
    /\ InitPure
    /\ pc = "parsefn"
    /\ oddities \in BOOLEAN
    /\ fnIn \in ParseNames

NextParse == ApplyParse

SpecParse == InitParse /\ [][NextParse]_vars

\* ------------------------------------------------------------------------
\* Properties
\* ------------------------------------------------------------------------
InCall == pc \in {"parse", "search", "details", "ytsearch", "quality", "plan",
                  "apply", "nfo"}

\* how the latest process_file call ended, "running" while it runs
Last ==
    IF InCall THEN "running"
    ELSE IF outcomes = <<>> THEN "none"
    ELSE outcomes[Len(outcomes)]

\* the file of the latest process_file call
TheFile == handed[Len(handed)]

HoldsTheFile(e) == e.content = <<"file", TheFile>>

\* C1: a download is attempted only when both the local and the remote
\* profile are available and is_youtube_better returns true; when it returns
\* false no download is issued.
C1_DownloadOnlyWhenRemoteBetter ==
    Called("download_video") =>
        /\ ~IsNone(local_info)
        /\ ~IsNone(yt_formats)
        /\ is_youtube_better(local_info, yt_formats)

\* C2: is_youtube_better is false when a profile is absent, false when the
\* remote bitrate is below 100 or missing whatever the heights, and
\* otherwise true exactly when remote height - local height > 100, a missing
\* height counting as 0.
HeightOf(profile) == IF IsNone(profile.height) THEN 0 ELSE Val(profile.height)

TerminalFailure ==
    \/ IsNone(parsed)
    \/ IsNone(match) /\ CalledWith("get_video_info", "none")

Untouched ==
    /\ TheFile \in source
    /\ \A e \in tree : ~HoldsTheFile(e)
    /\ ~Called("mkdir")
    /\ ~Called("move")
    /\ ~Called("download_video")
    /\ ~Called("create_nfo")

C3_FailureLeavesNothing ==
    (Last \in {"true", "false", "raised"} /\ TerminalFailure) =>
        (Last = "false" /\ Untouched)

C3_Witness ==
    /\ Last = "false"
    /\ ~IsNone(parsed)
    /\ IsNone(match)
    /\ CalledWith("get_video_info", "none")

\* C4: every video file the walk visits is handed to process_file exactly
\* once and counted exactly once as processed or failed; an exception counts
\* as failed and the walk goes on, so at the end processed + failed is the
\* number of video files visited.
CountOf(res) == Cardinality({i \in 1..Len(outcomes) : outcomes[i] = res})

C4_EveryVideoCountedOnce ==
    /\ handed = SelectSeq(SubSeq(walk, 1, IF InCall THEN idx ELSE idx - 1), IsVideo)
    /\ Len(outcomes) = Len(handed) - (IF InCall THEN 1 ELSE 0)
    /\ processed = CountOf("true")
    /\ failed = CountOf("false") + CountOf("raised")
    /\ pc = "done" => processed + failed = Len(SelectSeq(walk, IsVideo))

C4_Witness ==
    /\ pc = "done"
    /\ Len(outcomes) >= 2
    /\ outcomes[1] = "raised"
    /\ outcomes[2] = "true"

\* C5: a failing catalog search is treated as "no data": process_file goes
\* on to the host-service search and the file is not counted as failed
\* because of it.
C5_CatalogFailureIsNoData ==
    CalledWith("search_videos", "raise") =>
        (Last = "running" \/ (Last # "raised" /\ Called("get_video_info")))

\* C6 as stated: after a successful download the local file is in the
\* target directory under the canonical stem (with extra_info if any) plus
\* " (original)" and its extension.
CanonicalName(ext) ==
    LET m == Val(metadata)
        stem == m.artist \o <<" ", "-", " ">> \o PyStr(m.song_title)
        extra == Val(parsed).extra_info
    IN IF IsNone(extra) THEN stem \o ext ELSE stem \o <<" ">> \o Val(extra) \o ext

MarkedExt == <<" ","(","o","r","i","g","i","n","a","l",")">> \o Suffix(TheFile)

C6_OriginalUnderCanonicalStem ==
    CalledWith("download_video", "ok") =>
        \E e \in tree :
            /\ e.dir = Val(target_path)
            /\ e.name = sanitize_filename(CanonicalName(MarkedExt))
            /\ HoldsTheFile(e)

\* C6 amended: after a successful download the local file is moved into the
\* target directory the download was written to, under its own stem plus
\* " (original)" and its extension, the whole name sanitised.
C6_OriginalUnderOwnStem ==
    CalledWith("download_video", "ok") =>
        /\ TheFile \notin source
        /\ \E e \in tree :
              /\ e.dir = Val(target_path)
              /\ e.name = sanitize_filename(Stem(TheFile) \o MarkedExt)
              /\ HoldsTheFile(e)
        /\ \A e \in tree : HoldsTheFile(e) =>
              e.name = sanitize_filename(Stem(TheFile) \o MarkedExt)
        /\ \E i \in 1..Len(calls) :
              /\ calls[i].op = "download_video"
              /\ calls[i].arg[2] =
                    sanitize_filename(Val(metadata).artist \o <<" ", "-", " ">>
                        \o PyStr(Val(metadata).song_title) \o <<".","m","p","4">>)
              /\ \E e \in tree : e.dir = Val(target_path) /\ e.name = calls[i].arg[2]

C6_Witness ==
    /\ CalledWith("download_video", "ok")
    /\ Last = "true"
    /\ Stem(TheFile) # Val(metadata).artist \o <<" ", "-", " ">>
                          \o PyStr(Val(metadata).song_title)

\* C7: when the download fails, the source file is moved exactly once, into
\* the target directory under the canonical file name with its own
\* extension, the sidecar is written and the file counts as processed.
C7_FailedDownloadFallsBack ==
    CalledWith("download_video", "fail") =>
        /\ CountCalls("move") = 1
        /\ TheFile \notin source
        /\ \E e \in tree :
              /\ e.dir = Val(target_path)
              /\ e.name = sanitize_filename(CanonicalName(Suffix(TheFile)))
              /\ HoldsTheFile(e)
        /\ \A e \in tree : HoldsTheFile(e) =>
              e.name = sanitize_filename(CanonicalName(Suffix(TheFile)))
        /\ Last # "running" =>
              /\ Last = "true"
              /\ Called("create_nfo")
              /\ Val(target_path) \in nfos

C7_Witness ==
    /\ CalledWith("download_video", "fail")
    /\ Last = "true"
    /\ processed >= 1

\* C8: a file whose stem contains "(original)" in any letter case is never
\* downloaded for and is moved under its own sanitised name.
IsMarked(filename) ==
    Contains(Lower(Stem(filename)), <<"(","o","r","i","g","i","n","a","l",")">>)

C8_MarkedFileOnlyMoved ==
    (handed # <<>> /\ IsMarked(TheFile)) =>
        /\ ~Called("download_video")
        /\ \A i \in 1..Len(calls) : calls[i].op = "move" =>
              /\ calls[i].arg = sanitize_filename(TheFile)
              /\ \E e \in tree :
                    /\ e.dir = Val(target_path)
                    /\ e.name = sanitize_filename(TheFile)
                    /\ HoldsTheFile(e)

C8_Witness ==
    /\ handed # <<>>
    /\ IsMarked(TheFile)
    /\ Stem(TheFile) # Lower(Stem(TheFile))
    /\ Called("move")
    /\ should_download
    /\ ~IsNone(Val(metadata).youtube_id)

\* C9 as stated: an entry whose download path exists is skipped without a
\* download call, without a detail-fetch call and without a sidecar.
C9_SkippedWithoutAnyCall ==
    CalledWith("exists", "yes") =>
        /\ ~Called("download_video")
        /\ ~Called("get_video_details")
        /\ ~Called("create_nfo")

\* C9 amended: an entry whose download path exists is skipped without a
\* download call and without a sidecar; its one detail fetch has been made
\* before the path is tested and no catalog call follows the test.
C9_SkippedWithoutDownload ==
    CalledWith("exists", "yes") =>
        /\ ~Called("download_video")
        /\ ~Called("create_nfo")
        /\ pc # "download"
        /\ CountCalls("get_video_details") = 1
        /\ calls[1].op = "get_video_details"
        /\ calls[Len(calls)].op = "exists"

C9_Witness ==
    /\ CalledWith("exists", "yes")
    /\ pc = "scrape"
    /\ vidx = 2

\* C10: a failure on one catalog entry is not fatal to a bulk scrape: every
\* later entry of the list is still visited.
C10_EveryEntryVisited ==
    pc \in {"done", "crashed"} => visited = 1..Len(videos)

\* ------------------------------------------------------------------------
\* find_best_match: the scan order and the two filters
\* ------------------------------------------------------------------------
\* the candidate list of a response, empty when there is no response
ListOf(response) == IF IsNone(response) THEN <<>> ELSE Val(response)

EitherContains(a, b) == Contains(a, b) \/ Contains(b, a)

\* a candidate whose first artist is a record with a string name (or no name)
HasArtistRecord(c) ==
    /\ JTag(c.artists) = "list"
    /\ JVal(c.artists) # <<>>
    /\ JTag(JVal(c.artists)[1]) = "dict"
    /\ JTag(JVal(JVal(c.artists)[1]).name) \in {"str", "missing"}

NameOf(c) ==
    LET n == JVal(JVal(c.artists)[1]).name
    IN IF JTag(n) = "missing" THEN <<>> ELSE JVal(n)

\* the title as the code reads it: a missing title is '', any other value
\* its str()
TitleRead(c) ==
    CASE JTag(c.song_title) = "missing" -> <<>>
      [] JTag(c.song_title) = "str" -> JVal(c.song_title)
      [] JTag(c.song_title) = "int" -> NatToStr(JVal(c.song_title))
      [] OTHER -> <<"N","o","n","e">>

PassesBoth(c, p) ==
    /\ HasArtistRecord(c)
    /\ EitherContains(Lower(NameOf(c)), Lower(p.artist))
    /\ EitherContains(Lower(TitleRead(c)), Lower(p.song))

\* C11: find_best_match returns the first candidate, in list order, that
\* passes both the artist filter and the song filter (case-insensitive
\* substring containment in either direction), never a later one, and
\* returns none when no candidate passes both.
C11_FirstAcceptableReturned ==
    ~IsNone(fnOut) =>
        LET rs == ListOf(fnIn.results)
            ok == {i \in 1..Len(rs) : PassesBoth(rs[i], fnIn.parsed)}
        IN IF ok = {} THEN Val(fnOut) = None
           ELSE \E i \in ok : /\ \A j \in ok : i <= j
                               /\ Val(fnOut) = Some(rs[i])

\* two different candidates pass both filters and the first was returned
C11_Witness ==
    /\ ~IsNone(fnOut)
    /\ LET rs == ListOf(fnIn.results)
       IN /\ Len(rs) >= 2
          /\ rs[1] # rs[2]
          /\ PassesBoth(rs[1], fnIn.parsed)
          /\ PassesBoth(rs[2], fnIn.parsed)
          /\ Val(fnOut) = Some(rs[1])

\* ------------------------------------------------------------------------
\* find_best_match: malformed candidates
\* ------------------------------------------------------------------------
\* a candidate whose artist list is missing, empty or not a list, whose
\* first artist is not a record, whose artist name is present and not a
\* string, or whose song title is present and not a string
Malformed(c) ==
    \/ JTag(c.artists) # "list"
    \/ JVal(c.artists) = <<>>
    \/ JTag(JVal(c.artists)[1]) # "dict"
    \/ JTag(JVal(JVal(c.artists)[1]).name) \notin {"str", "missing"}
    \/ JTag(c.song_title) \notin {"str", "missing"}

\* C12: a malformed candidate (artist list missing, empty or not a list;
\* first artist not a record; artist name not a string; song title not a
\* string) is skipped by find_best_match and never returned.
C12_MalformedNeverReturned ==
    (~IsNone(fnOut) /\ ~IsNone(Val(fnOut))) => ~Malformed(Val(Val(fnOut)))

\* ------------------------------------------------------------------------
\* sanitize_filename
\* ------------------------------------------------------------------------
\* C13: the result of sanitize_filename contains none of the characters
\* < > : " / \ | ? *, does not end with a dot or a whitespace character,
\* and sanitizing it again leaves it unchanged.
C13_SanitizedIsClean ==
    ~IsNone(fnOut) =>
        LET r == Val(fnOut)
        IN /\ \A i \in 1..Len(r) : ~IsInvalidChar(r[i])
           /\ r # <<>> => (r[Len(r)] # "." /\ ~IsSpace(r[Len(r)]))
           /\ sanitize_filename(r) = r

\* ------------------------------------------------------------------------
\* parse_filename
\* ------------------------------------------------------------------------
\* C14: when parse_filename returns a record, in strict or permissive
\* mode, its artist and its song are both non-empty and carry no leading
\* or trailing whitespace.
C14_ParsedFieldsNonEmpty ==
    (~IsNone(fnOut) /\ ~IsNone(Val(fnOut))) =>
        LET r == Val(Val(fnOut))
        IN /\ r.artist # <<>>
           /\ r.song # <<>>
           /\ Strip(r.artist) = r.artist
           /\ Strip(r.song) = r.song

\* ------------------------------------------------------------------------
\* process_file under the placeholder key
\* ------------------------------------------------------------------------
\* a process_file call has ended on a file whose name was parsed
ParsedCallEnded == ~InCall /\ handed # <<>> /\ ~IsNone(parsed)

\* exactly one host-service search, for "{parsed artist} {parsed song}"
OneHostSearchForParsed ==
    /\ CountCalls("get_video_info") = 1
    /\ \A i \in 1..Len(calls) :
          calls[i].op = "get_video_info" =>
              calls[i].arg = Val(parsed).artist \o <<" ">> \o Val(parsed).song

CatalogArtist(m) == JVal(JVal(JVal(m.artists)[1]).name)

HostArtists == {Val(yt.artist) : yt \in {y \in YtInfos : ~IsNone(y.artist)}}
HostTracks == {JStr(Val(yt.track)) : yt \in {y \in YtInfos : ~IsNone(y.track)}}
HostYears ==
    {Some(SubSeq(Val(yt.upload_date), 1, 4)) : yt \in {y \in YtInfos : ~IsNone(y.upload_date)}}

\* the step of process_file that consults the host service
HostStepKeepsPriority ==
    LET md == Val(metadata)
        md2 == Val(metadata')
        p == Val(parsed)
    IN /\ ~IsNone(match) =>
             /\ md2.artist = md.artist
             /\ md2.song_title = md.song_title
       /\ IsNone(match) =>
             /\ md.artist = p.artist
             /\ md.song_title = JStr(p.song)
             /\ md2.artist \in {p.artist} \cup HostArtists
             /\ md2.song_title \in {JStr(p.song)} \cup HostTracks
       /\ ~IsNone(md.year) => md2.year = md.year
       /\ IsNone(md.year) => md2.year \in {None} \cup HostYears

\* C16: the resolved metadata follows the priority catalog > host-service
\* guess > raw parse: with a catalog match the resolved artist and
\* song_title are the catalog's and the host-service step leaves them
\* alone; without one they are the raw parse until the host-service step,
\* which may replace them by the host's artist and track; the host's
\* upload year is taken only when the catalog supplied no year.
C16_MetadataPriority ==
    [][ /\ (~IsNone(match') /\ MatchUsable(Val(match')) /\ ~IsNone(metadata')) =>
              /\ Val(metadata').artist = CatalogArtist(Val(match'))
              /\ Val(metadata').song_title = Val(match').song_title
        /\ pc = "ytsearch" => HostStepKeepsPriority ]_vars

\* a file with a catalog match and no catalog year whose host record named
\* another artist: the names are the catalog's, the year is the host's
C16_Witness ==
    /\ ~IsNone(match)
    /\ ~IsNone(metadata)
    /\ CalledWith("get_video_info", "ok")
    /\ Val(metadata).artist = CatalogArtist(Val(match))
    /\ Val(metadata).artist \notin HostArtists
    /\ Val(metadata).year \in HostYears
    /\ Last = "true"

\* ------------------------------------------------------------------------
\* process_directory: what the target tree holds at the end of the run
\* ------------------------------------------------------------------------
\* the source file f sits somewhere in the target tree
InTree(f) == \E e \in tree : e.content = <<"file", f>>

\* C17: no move or download overwrites a media file that an earlier
\* process_file call placed in the target tree: at the end of the run every
\* file reported as processed is still in the tree, also when two source
\* files resolve to the same artist, song title and extension.
C17_ProcessedFilesSurvive ==
    pc = "done" =>
        \A i \in 1..Len(handed) : outcomes[i] = "true" => InTree(handed[i])

====
